---- MODULE Spec2Model ----
(***************************************************************************)
(* A model of bin/manage_asana_task.py: one invocation of main(), which    *)
(* asks _may_bridge_to_asana for a decision, creates an Asana task and     *)
(* comments back on the GitHub issue.                                      *)
(*                                                                         *)
(* Strings the code takes apart (ACTOR_ALLOWLIST, ACTOR, REPO) are         *)
(* sequences of one-character strings.  An environment variable is a       *)
(* record [set, val]: environ.get(NAME) is None when set is FALSE.         *)
(* Every HTTP call is one step whose response is chosen by the peer.       *)
(***************************************************************************)
EXTENDS Integers, Sequences, FiniteSets, TLC

\* ------------------------------------------------------------------ bounds
MaxActorLen == 2
MaxAllowlistLen == 3
MaxRepoLen == 3
MaxTeams == 2
MaxBodyBlocks == 1
MaxBodyLen == 2
MaxFields == 1
MaxUrlLen == 3

\* --------------------------------------------------------------- constants
MESSAGE_UNABLE_TO_CREATE_ASANA_PERMALINK == "Error creating Asana task"
FLAG_ONLY_REACT_TO_SPECIFIED_USERS == "specified-users"
FLAG_ONLY_REACT_TO_ALL == "all"
\* The two flags the tests import; their values are not in the source.
FLAG_ONLY_REACT_TO_REPO_TEAM == "repo-team"
FLAG_ONLY_REACT_TO_REPO_ORG == "repo-org"

ASANA_ALLOWED_TAGS_FOR_TASKS ==
    {"a", "body", "code", "em", "h1", "h2", "hr", "li", "ol", "s", "strong", "u", "ul"}

\* ----------------------------------------------------------------- strings
Strings(chars, n) == UNION {[1..k -> chars] : k \in 0..n}

ActorChars == {"a", "b", " "}
AllowlistChars == {"a", "b", ",", " "}
RepoChars == {"o", "/"}
Logins == {<<"a">>, <<"b">>}

\* environ.get(NAME): a value, or None
Unset == [set |-> FALSE, val |-> <<>>]
Str(s) == [set |-> TRUE, val |-> s]
\* environ.get(NAME, "")
GetOrEmpty(v) == IF v.set THEN v.val ELSE <<>>

\* str.split(sep): the pieces between the separators, empty pieces kept
RECURSIVE Split(_, _)
Split(s, sep) ==
    IF \E i \in 1..Len(s) : s[i] = sep
    THEN LET i == CHOOSE k \in 1..Len(s) :
                      s[k] = sep /\ \A j \in 1..(k - 1) : s[j] # sep
         IN  <<SubSeq(s, 1, i - 1)>> \o Split(SubSeq(s, i + 1, Len(s)), sep)
    ELSE <<s>>

\* str.strip(): leading and trailing whitespace removed
RECURSIVE Strip(_)
Strip(s) ==
    IF s = <<>> THEN s
    ELSE IF Head(s) = " " THEN Strip(Tail(s))
    ELSE IF s[Len(s)] = " " THEN Strip(SubSeq(s, 1, Len(s) - 1))
    ELSE s

\* [x.strip() for x in environ.get("ACTOR_ALLOWLIST", "").split(",")]
ActorAllowlist(raw) ==
    LET parts == Split(GetOrEmpty(raw), ",")
    IN  [i \in 1..Len(parts) |-> Strip(parts[i])]

\* actor in actor_allowlist (None is equal to no string)
ActorInList(actor, list) ==
    actor.set /\ \E i \in 1..Len(list) : list[i] = actor.val

\* ------------------------------------------------------------------- state
VARIABLES
    environ,        \* os.environ, fixed for the run
    directory,      \* the GitHub membership directory the lookups read
    pc,             \* where the run is
    requests,       \* the HTTP requests issued so far, with their status
    stdout,         \* the lines log() wrote
    decision,       \* what _may_bridge_to_asana returned
    teams_todo,     \* the teams whose members are still to be fetched
    gid,            \* create_task: custom_gh_issue_field_gid
    payload,        \* create_task: the task-creation payload
    created,        \* what create_task returned
    comment         \* the comment posted on the issue

vars == <<environ, directory, pc, requests, stdout, decision, teams_todo,
          gid, payload, created, comment>>

NoFlag == [set |-> FALSE, val |-> ""]
Flag(v) == [set |-> TRUE, val |-> v]
\* environ.get(NAME, "") of a variable whose value is not taken apart
GetOrNone(v) == IF v.set THEN v.val ELSE ""

\* reply: the permalink a task-creation response carries, the custom fields
\* a project response lists, "" elsewhere
Request(kind, idx, target, status, reply) ==
    [kind |-> kind, idx |-> idx, target |-> target, status |-> status, reply |-> reply]

Statuses == {200, 404}

\* ------------------------------------------------ _may_bridge_to_asana
IsLookupFlag(flag) ==
    flag.set /\ flag.val \in {FLAG_ONLY_REACT_TO_REPO_TEAM, FLAG_ONLY_REACT_TO_REPO_ORG}

\* A faulty variant: the function ends with `return True`.
MayBridgeFailOpen(flag, actor, raw_allowlist) ==
    IF flag.set /\ flag.val = FLAG_ONLY_REACT_TO_SPECIFIED_USERS
       /\ ~ActorInList(actor, ActorAllowlist(raw_allowlist))
    THEN [allow |-> FALSE,
          log |-> <<"Actor is not in the provided allowlist.",
                    "Bridging this issue to Asana is not allowed">>]
    ELSE [allow |-> TRUE, log |-> <<"All Issues are being bridged to Asana.">>]

\* A faulty variant: the mode "all" consults the allowlist as well.
MayBridgeAllNeedsAllowlist(flag, actor, raw_allowlist) ==
    IF flag.set /\ flag.val \in {FLAG_ONLY_REACT_TO_ALL, FLAG_ONLY_REACT_TO_SPECIFIED_USERS}
    THEN IF ActorInList(actor, ActorAllowlist(raw_allowlist))
         THEN [allow |-> TRUE, log |-> <<"All Issues are being bridged to Asana.">>]
         ELSE [allow |-> FALSE,
               log |-> <<"Actor is not in the provided allowlist.",
                         "Bridging this issue to Asana is not allowed">>]
    ELSE [allow |-> FALSE, log |-> <<"Bridging this issue to Asana is not allowed">>]

\* The decision and the log lines of the modes that need no lookup.
MayBridgeDecision(flag, actor, raw_allowlist) ==
    LET actor_allowlist == ActorAllowlist(raw_allowlist) IN
    IF flag.set /\ flag.val = FLAG_ONLY_REACT_TO_ALL
    THEN [allow |-> TRUE, log |-> <<"All Issues are being bridged to Asana.">>]
    ELSE IF flag.set /\ flag.val = FLAG_ONLY_REACT_TO_SPECIFIED_USERS
    THEN IF ActorInList(actor, actor_allowlist)
         THEN [allow |-> TRUE, log |-> <<"Actor is in the provided allowlist.">>]
         ELSE [allow |-> FALSE,
               log |-> <<"Actor is not in the provided allowlist.",
                         "Bridging this issue to Asana is not allowed">>]
    ELSE [allow |-> FALSE, log |-> <<"Bridging this issue to Asana is not allowed">>]

Verdict(allow) == IF allow THEN "allow" ELSE "deny"

may_bridge_to_asana ==
    /\ pc = "start"
    /\ ~IsLookupFlag(environ.ONLY_REACT_TO)
    /\ LET r == MayBridgeDecision(environ.ONLY_REACT_TO, environ.ACTOR,
                                  environ.ACTOR_ALLOWLIST)
       IN  /\ decision' = Verdict(r.allow)
           /\ stdout' = stdout \o r.log
    /\ pc' = "decided"
    /\ UNCHANGED <<environ, directory, requests, teams_todo, gid, payload,
                   created, comment>>

\* --- repo-team mode
\* The repo-team and repo-org branches belong to the variant of the script
\* that the tests exercise; they follow section 4.3 of the specification and
\* the requests and log lines the tests expect.
\* A member list holds the actor's login.
IsMember(actor, members) == actor.set /\ actor.val \in members

\* The loop over the teams ends with a denial when no team is left.
TeamLoop(todo) ==
    IF todo = <<>>
    THEN /\ decision' = "deny"
         /\ stdout' = Append(stdout, "Bridging this issue to Asana is not allowed")
         /\ pc' = "decided"
    ELSE /\ pc' = "team_loop"
         /\ UNCHANGED <<decision, stdout>>

get_repo_teams ==
    /\ pc = "start"
    /\ environ.ONLY_REACT_TO = Flag(FLAG_ONLY_REACT_TO_REPO_TEAM)
    /\ \E status \in Statuses :
        /\ requests' = Append(requests,
                              Request("GET teams", 0, environ.REPO.val, status, ""))
        /\ IF status = 200
           THEN /\ teams_todo' = directory.teams
                /\ TeamLoop(directory.teams)
           ELSE /\ stdout' = Append(stdout, "Problem getting teams data")
                /\ pc' = "exit"
                /\ UNCHANGED <<decision, teams_todo>>
    /\ UNCHANGED <<environ, directory, gid, payload, created, comment>>

\* A faulty variant: the loop does not stop at the team that holds the actor.
get_team_members_all ==
    /\ pc = "team_loop"
    /\ teams_todo # <<>>
    /\ \E status \in Statuses :
        /\ requests' = Append(requests,
                Request("GET team members",
                        Len(directory.teams) - Len(teams_todo) + 1, <<>>, status, ""))
        /\ IF status # 200
           THEN /\ stdout' = Append(stdout, "Problem getting members data for a team")
                /\ pc' = "exit"
                /\ UNCHANGED <<decision, teams_todo>>
           ELSE /\ teams_todo' = Tail(teams_todo)
                /\ decision' = IF IsMember(environ.ACTOR, Head(teams_todo))
                               THEN "allow"
                               ELSE IF Tail(teams_todo) = <<>> /\ decision = "undecided"
                               THEN "deny" ELSE decision
                /\ pc' = IF Tail(teams_todo) # <<>> THEN "team_loop" ELSE "decided"
                /\ stdout' = IF Tail(teams_todo) # <<>> THEN stdout
                             ELSE Append(stdout, "Bridging this issue to Asana is not allowed")
    /\ UNCHANGED <<environ, directory, gid, payload, created, comment>>

get_team_members ==
    /\ pc = "team_loop"
    /\ teams_todo # <<>>
    /\ \E status \in Statuses :
        /\ requests' = Append(requests,
                Request("GET team members",
                        Len(directory.teams) - Len(teams_todo) + 1, <<>>, status, ""))
        /\ IF status # 200
           THEN /\ stdout' = Append(stdout, "Problem getting members data for a team")
                /\ pc' = "exit"
                /\ UNCHANGED <<decision, teams_todo>>
           ELSE IF IsMember(environ.ACTOR, Head(teams_todo))
           THEN /\ decision' = "allow"
                /\ stdout' = Append(stdout,
                        "Issue actor is on a team associated with the repo.")
                /\ pc' = "decided"
                /\ UNCHANGED teams_todo
           ELSE /\ teams_todo' = Tail(teams_todo)
                /\ TeamLoop(Tail(teams_todo))
    /\ UNCHANGED <<environ, directory, gid, payload, created, comment>>

\* --- repo-org mode
\* A faulty variant: the repository's name is taken for the organisation.
RepoNameOf(repo_info) == Split(repo_info, "/")[Len(Split(repo_info, "/"))]

\* The organisation of "org/repo": what precedes the first "/".
OrgOf(repo_info) == Split(repo_info, "/")[1]

get_org_members ==
    /\ pc = "start"
    /\ environ.ONLY_REACT_TO = Flag(FLAG_ONLY_REACT_TO_REPO_ORG)
    /\ \E status \in Statuses :
        /\ requests' = Append(requests,
                Request("GET org members", 0, OrgOf(environ.REPO.val), status, ""))
        /\ IF status # 200
           THEN /\ stdout' = Append(stdout, "Problem getting member data")
                /\ pc' = "exit"
                /\ UNCHANGED decision
           ELSE IF IsMember(environ.ACTOR, directory.org_members)
           THEN /\ decision' = "allow"
                /\ stdout' = Append(stdout,
                        "Issue actor is part of the org that owns this repo.")
                /\ pc' = "decided"
           ELSE /\ decision' = "deny"
                /\ stdout' = Append(stdout, "Bridging this issue to Asana is not allowed")
                /\ pc' = "decided"
    /\ UNCHANGED <<environ, directory, teams_todo, gid, payload, created, comment>>

\* ------------------------------------------------------------------- log
\* log(*params) joins its parameters with " ".join, which accepts str only:
\* any other parameter (bytes, None) raises TypeError before anything is
\* written.
LogRaises(param_type) == param_type # "str"

\* ------------------------------------------- _get_github_issue_field_gid
NoGid == [src |-> "none", idx |-> 0]
EnvGid == [src |-> "env", idx |-> 0]
FieldGid(i) == [src |-> "project", idx |-> i]

FieldNames == {"Github Issue", "github issue", "Other"}
Lower(name) == IF name = "Github Issue" THEN "github issue"
               ELSE IF name = "Other" THEN "other" ELSE name

\* A custom_field_settings entry of the project: the name of its custom
\* field, and whether the custom field carries a gid (.get("gid") is None
\* when it does not).
FieldSpecs == {[name |-> n, has_gid |-> h] : n \in FieldNames, h \in BOOLEAN}

\* The first custom field whose lower-cased name is the lower-cased
\* field_name, where the loop breaks; 0 when there is none.
MatchingField(fields, field_name) ==
    IF \E i \in 1..Len(fields) : Lower(fields[i].name) = Lower(field_name)
    THEN CHOOSE i \in 1..Len(fields) :
            /\ Lower(fields[i].name) = Lower(field_name)
            /\ \A j \in 1..(i - 1) : Lower(fields[j].name) # Lower(field_name)
    ELSE 0

\* The gid of that field; nothing when there is no such field or it has no gid.
FindFieldGid(fields, field_name) ==
    LET i == MatchingField(fields, field_name) IN
    IF i # 0 /\ fields[i].has_gid THEN FieldGid(i) ELSE NoGid

\* ---------------------------------------------------------- _build_task_body
\* The issue body is a sequence of Markdown blocks; markdown() renders each
\* to HTML tokens [t, name, href]: t is "text", "open", "close" or
\* "selfclosed", name the tag (the words, for a text), href a link's target.
\* "html_p" is a paragraph typed as HTML, "script" a script element typed as
\* HTML; the other blocks are Markdown: a paragraph, a paragraph with
\* emphasis, "## heading", "### heading" and "---".
BlockKinds == {"text", "em", "h2", "rule", "script", "h3", "html_p"}

Tok(t, name) == [t |-> t, name |-> name, href |-> <<>>]

RenderBlock(b) ==
    CASE b \in {"text", "html_p"} ->
                         <<Tok("open", "p"), Tok("text", ""), Tok("close", "p")>>
      [] b = "h2"     -> <<Tok("open", "h2"), Tok("text", ""), Tok("close", "h2")>>
      [] b = "em"     -> <<Tok("open", "p"), Tok("open", "em"), Tok("text", ""),
                           Tok("close", "em"), Tok("close", "p")>>
      [] b = "rule"   -> <<Tok("selfclosed", "hr")>>
      [] b = "script" -> <<Tok("open", "script"), Tok("text", ""), Tok("close", "script")>>
      [] b = "h3"     -> <<Tok("open", "h3"), Tok("text", ""), Tok("close", "h3")>>

RECURSIVE markdown(_)
markdown(body) ==
    IF body = <<>> THEN <<>> ELSE RenderBlock(Head(body)) \o markdown(Tail(body))

\* bleach.clean(html, tags=tags, strip=True): tags outside the set are
\* dropped, their text kept; kept tags are written the HTML5 way.
RECURSIVE bleach_clean(_, _)
bleach_clean(html, tags) ==
    IF html = <<>> THEN <<>>
    ELSE LET h == Head(html)
             rest == bleach_clean(Tail(html), tags)
         IN  IF h.t = "text" THEN <<h>> \o rest
             ELSE IF h.name \in tags
             THEN <<Tok(IF h.t = "selfclosed" THEN "open" ELSE h.t, h.name)>> \o rest
             ELSE rest

\* A faulty variant: the rule is not rewritten before the comparison.
KeepHr(html) == html

\* rendered_issue_body.replace("<hr />", "<hr>")
ReplaceHr(html) ==
    [i \in 1..Len(html) |->
        IF html[i] = Tok("selfclosed", "hr") THEN Tok("open", "hr") ELSE html[i]]

\* optional_link_string: "" or <a href="{issue_url}">Github</a>
NoLink == <<>>
Link(url) == <<[t |-> "open", name |-> "a", href |-> url], Tok("text", "Github"),
               Tok("close", "a")>>
\* content_disclaimer_string: "" or the rule and the note
NOTE == "Note: The original Issue contained content which cannot be displayed in an Asana Task"
DISCLAIMER == <<Tok("open", "hr"), Tok("text", NOTE)>>

\* A faulty variant: the template names the disclaimer before the link.
TaskHtmlDisclaimerFirst(sanitised_issue_body, optional_link_string, content_disclaimer_string) ==
    << <<Tok("open", "body")>>,
       sanitised_issue_body,
       content_disclaimer_string,
       optional_link_string,
       <<Tok("close", "body")>> >>

\* The lines of the template, in its order, each a sequence of tokens;
\* the white space dedent() removes or leaves is not modelled.
TaskHtml(sanitised_issue_body, optional_link_string, content_disclaimer_string) ==
    << <<Tok("open", "body")>>,
       sanitised_issue_body,
       optional_link_string,
       content_disclaimer_string,
       <<Tok("close", "body")>> >>

build_task_body(issue_body, issue_url, custom_gh_field_known) ==
    LET rendered_issue_body == markdown(issue_body)
        first_pass == bleach_clean(rendered_issue_body,
                                   ASANA_ALLOWED_TAGS_FOR_TASKS \cup {"p"})
        changed == first_pass # ReplaceHr(rendered_issue_body)
        sanitised_issue_body == bleach_clean(first_pass, ASANA_ALLOWED_TAGS_FOR_TASKS)
    IN  [html |-> TaskHtml(sanitised_issue_body,
                           IF custom_gh_field_known THEN NoLink ELSE Link(issue_url),
                           IF changed THEN DISCLAIMER ELSE <<>>),
         changed |-> changed]

\* ------------------------------------------------------------- create_task
NoPermalink == "None"
TASK_URL == "https://asana.example.com/task/1234"
\* What a 201 response can carry as data.permalink_url (None: no such key).
Permalinks == {TASK_URL, NoPermalink, MESSAGE_UNABLE_TO_CREATE_ASANA_PERMALINK}
\* The responses to the task-creation POST: 201 with a permalink, or a refusal.
TaskResponses ==
    {[status |-> 201, permalink |-> p] : p \in Permalinks}
    \cup {[status |-> 404, permalink |-> ""]}

NoPayload == [custom_fields |-> {}, html_notes |-> build_task_body(<<>>, <<>>, TRUE).html]
NotCreated == [returned |-> FALSE, permalink |-> "", changed |-> FALSE]

\* A faulty variant: the body is built as if the custom field were always known.
CustomFieldAlwaysKnown(custom_gh_issue_field_gid) == TRUE

\* bool(custom_gh_issue_field_gid)
CustomFieldKnown(custom_gh_issue_field_gid) == custom_gh_issue_field_gid.src # "none"

\* custom_fields = {}; if custom_gh_issue_field_gid: custom_fields[gid] = issue_url
CustomFields(custom_gh_issue_field_gid, issue_url) ==
    IF custom_gh_issue_field_gid.src # "none"
    THEN {[key |-> custom_gh_issue_field_gid, value |-> issue_url]}
    ELSE {}

\* A faulty variant: main() ignores the decision.
MainNeverReturnsEarly(d) == FALSE

\* main(): `if not _may_bridge_to_asana(...)`: log and return
MainReturnsEarly(d) == d = "deny"

main_not_allowed ==
    /\ pc = "decided"
    /\ MainReturnsEarly(decision)
    /\ stdout' = Append(stdout, "Not mirroring this Issue to Asana")
    /\ pc' = "done"
    /\ UNCHANGED <<environ, directory, requests, decision, teams_todo, gid,
                   payload, created, comment>>

\* create_task, first half: _get_github_issue_field_gid()
get_github_issue_field_gid ==
    /\ pc = "decided"
    /\ ~MainReturnsEarly(decision)
    /\ IF GetOrNone(environ.ASANA_GITHUB_ISSUE_CUSTOM_FIELD_GID) # ""
       THEN /\ gid' = EnvGid
            /\ UNCHANGED <<requests, stdout>>
       ELSE \E status \in Statuses, fields \in Strings(FieldSpecs, MaxFields) :
            /\ requests' = Append(requests,
                    Request("GET project", 0, <<>>, status,
                            IF status = 200 THEN fields ELSE <<>>))
            /\ gid' = IF status = 200 THEN FindFieldGid(fields, "Github Issue")
                      ELSE NoGid
            /\ stdout' = IF status = 200 /\ MatchingField(fields, "Github Issue") # 0
                         THEN Append(stdout, "Custom field has gid")
                         ELSE stdout
    /\ pc' = "create_task"
    /\ UNCHANGED <<environ, directory, decision, teams_todo, payload, created, comment>>

\* create_task, second half: build the payload, POST it, read the response.
create_task ==
    /\ pc = "create_task"
    /\ LET custom_fields == CustomFields(gid, environ.ISSUE_URL)
           body == build_task_body(environ.ISSUE_BODY, environ.ISSUE_URL,
                                   CustomFieldKnown(gid))
       IN  /\ payload' = [custom_fields |-> custom_fields, html_notes |-> body.html]
           /\ \E resp \in TaskResponses :
                /\ requests' = Append(requests,
                        Request("POST task", 0, <<>>, resp.status, resp.permalink))
                /\ IF resp.status = 201
                   THEN /\ stdout' = Append(stdout, "Asana task created")
                        /\ created' = [returned |-> TRUE, permalink |-> resp.permalink,
                                       changed |-> body.changed]
                        /\ pc' = "created"
                   ELSE IF LogRaises("bytes")    \* log(resp.content)
                   THEN /\ pc' = "raised"
                        /\ UNCHANGED <<stdout, created>>
                   ELSE /\ stdout' = Append(stdout, "resp.content")
                        /\ created' = [returned |-> TRUE,
                                       permalink |-> MESSAGE_UNABLE_TO_CREATE_ASANA_PERMALINK,
                                       changed |-> body.changed]
                        /\ pc' = "created"
    /\ UNCHANGED <<environ, directory, decision, teams_todo, gid, comment>>

\* ----------------------------------------------------- _transform_to_api_url
GITHUB_HTML_PREFIX == "https://github.com/"
GITHUB_API_PREFIX == "https://api.github.com/repos/"

\* html_url.replace(old, new, 1): the first occurrence of old is replaced.
\* A URL is a sequence of pieces, one of which may be the literal old.
\* A faulty variant: html_url.replace(old, new), without the count.
ReplaceAll(url, old, new) ==
    [k \in 1..Len(url) |-> IF url[k] = old THEN new ELSE url[k]]

ReplaceFirst(url, old, new) ==
    IF \E i \in 1..Len(url) : url[i] = old
    THEN LET i == CHOOSE k \in 1..Len(url) :
                      url[k] = old /\ \A j \in 1..(k - 1) : url[j] # old
         IN  [url EXCEPT ![i] = new]
    ELSE url

transform_to_api_url(html_url) ==
    ReplaceFirst(html_url, GITHUB_HTML_PREFIX, GITHUB_API_PREFIX)

\* ------------------------------------- add_task_as_comment_on_github_issue
NoComment == [posted |-> FALSE, url |-> <<>>, permalink |-> "", warning |-> FALSE,
              body |-> <<>>]

COPIED == "This issue has been copied to Asana: "
WARNING == " **However**, some of the content was not mirrored due to markup restrictions. Please review the Asana Task."

\* A faulty variant: the comment never carries the warning.
CommentWithoutWarning(task_permalink, github_description_was_changed_for_asana) ==
    <<COPIED, task_permalink>>

\* The comment: the fixed sentence and the permalink, then the warning when
\* the description was changed.
Comment(task_permalink, github_description_was_changed_for_asana) ==
    <<COPIED, task_permalink>>
    \o (IF github_description_was_changed_for_asana THEN <<WARNING>> ELSE <<>>)

\* A faulty variant: `if REPO_TOKEN is None`.
RepoTokenIsNone(token) == ~token.set

\* `if not REPO_TOKEN`
NoRepoToken(token) == ~token.set \/ token.val = ""

\* A faulty variant: main() comments whatever create_task returned.
MainAlwaysComments(task_permalink) == TRUE

\* main(): `if task_permalink != MESSAGE_UNABLE_TO_CREATE_ASANA_PERMALINK`
MainComments(task_permalink) ==
    task_permalink # MESSAGE_UNABLE_TO_CREATE_ASANA_PERMALINK

main_no_comment ==
    /\ pc = "created"
    /\ ~MainComments(created.permalink)
    /\ pc' = "done"
    /\ UNCHANGED <<environ, directory, requests, stdout, decision, teams_todo,
                   gid, payload, created, comment>>

add_task_as_comment_on_github_issue ==
    /\ pc = "created"
    /\ MainComments(created.permalink)
    /\ IF NoRepoToken(environ.REPO_TOKEN)
       THEN /\ stdout' = Append(stdout, "No REPO_TOKEN found - cannot update Issue")
            /\ UNCHANGED <<requests, comment>>
       ELSE \E status \in {201, 404} :
            /\ comment' = [posted |-> TRUE,
                           url |-> Append(transform_to_api_url(environ.ISSUE_URL),
                                          "/comments"),
                           permalink |-> created.permalink,
                           warning |-> created.changed,
                           body |-> Comment(created.permalink, created.changed)]
            /\ requests' = Append(requests, Request("POST comment", 0, <<>>, status, ""))
            /\ stdout' = Append(stdout,
                    IF status # 201 THEN "Commenting failed"
                    ELSE "Asana task URL added in comment on original issue")
    /\ pc' = "done"
    /\ UNCHANGED <<environ, directory, decision, teams_todo, gid, payload, created>>

\* ------------------------------------------------------------ the inputs
Actors(n) == {Unset} \cup {Str(x) : x \in Strings(ActorChars, n)}
Allowlists(n) == {Unset} \cup {Str(x) : x \in Strings(AllowlistChars, n)}
DefaultRepo == Str(<<"o", "/", "o">>)
NoDirectory == [teams |-> <<>>, org_members |-> {}]

LocalFlags == {NoFlag, Flag(FLAG_ONLY_REACT_TO_ALL),
               Flag(FLAG_ONLY_REACT_TO_SPECIFIED_USERS), Flag("not-a-recognised-value")}

\* The inputs of the policy evaluator.  What a mode never reads is left at
\* one value: the allowlist in the lookup modes, the directory elsewhere.
PolicyCases(actors, allowlists, repos, teamlists, memberlists) ==
    {[flag |-> f, actor |-> a, allowlist |-> l, repo |-> DefaultRepo,
      directory |-> NoDirectory] :
        f \in LocalFlags, a \in actors, l \in allowlists}
    \cup
    {[flag |-> Flag(FLAG_ONLY_REACT_TO_REPO_TEAM), actor |-> a, allowlist |-> Unset,
      repo |-> DefaultRepo, directory |-> [teams |-> t, org_members |-> {}]] :
        a \in actors, t \in teamlists}
    \cup
    {[flag |-> Flag(FLAG_ONLY_REACT_TO_REPO_ORG), actor |-> a, allowlist |-> Unset,
      repo |-> r, directory |-> [teams |-> <<>>, org_members |-> m]] :
        a \in actors, r \in repos, m \in memberlists}
    \cup
    {[flag |-> Flag(FLAG_ONLY_REACT_TO_ALL), actor |-> a, allowlist |-> Unset,
      repo |-> r, directory |-> [teams |-> <<>>, org_members |-> m]] :
        a \in actors, r \in repos \cup {Unset}, m \in memberlists}

Environ(c, token, field_gid, url, body) ==
    [ONLY_REACT_TO |-> c.flag, ACTOR |-> c.actor, ACTOR_ALLOWLIST |-> c.allowlist,
     REPO |-> c.repo, REPO_TOKEN |-> token,
     ASANA_GITHUB_ISSUE_CUSTOM_FIELD_GID |-> field_gid,
     ISSUE_URL |-> url, ISSUE_BODY |-> body]

Start ==
    /\ pc = "start"
    /\ requests = <<>>
    /\ stdout = <<>>
    /\ decision = "undecided"
    /\ teams_todo = <<>>
    /\ gid = NoGid
    /\ payload = NoPayload
    /\ created = NotCreated
    /\ comment = NoComment

RepoTokens == {NoFlag, Flag(""), Flag("test-token-for-github")}
FieldGidSettings == {NoFlag, Flag(""), Flag("fake-gid-value")}
IssueUrls == {<<GITHUB_HTML_PREFIX, "mozilla/bedrock/issues/1">>,
              <<"https://gitlab.com/", "mozmeao/bedrock/issues/1">>}
IssueBodies == Strings(BlockKinds, MaxBodyBlocks)

\* --- one run of main()
MainCases ==
    PolicyCases({Unset, Str(<<>>), Str(<<"a">>)}, {Unset, Str(<<"a">>)},
                {DefaultRepo}, {<<>>, <<{}, {<<"a">>}>>}, {{}, {<<"a">>}})

Init ==
    /\ \E c \in MainCases, token \in RepoTokens, field_gid \in FieldGidSettings,
          url \in IssueUrls, body \in IssueBodies :
        /\ environ = Environ(c, token, field_gid, url, body)
        /\ directory = c.directory
    /\ Start

Policy ==
    \/ may_bridge_to_asana
    \/ get_repo_teams
    \/ get_team_members
    \/ get_org_members

Next ==
    \/ Policy
    \/ main_not_allowed
    \/ get_github_issue_field_gid
    \/ create_task
    \/ main_no_comment
    \/ add_task_as_comment_on_github_issue

Spec == Init /\ [][Next]_vars

\* --- main() in the mode "all", up to the return of create_task, on
\* every issue body
AllowAllCase ==
    [flag |-> Flag(FLAG_ONLY_REACT_TO_ALL), actor |-> Str(<<"a">>), allowlist |-> Unset,
     repo |-> DefaultRepo, directory |-> NoDirectory]

InitBody ==
    /\ \E field_gid \in FieldGidSettings, url \in IssueUrls,
          body \in Strings(BlockKinds, MaxBodyLen) :
        environ = Environ(AllowAllCase, Flag("test-token-for-github"), field_gid, url, body)
    /\ directory = NoDirectory
    /\ Start

NextBody ==
    \/ may_bridge_to_asana
    \/ get_github_issue_field_gid
    \/ create_task

SpecBody == InitBody /\ [][NextBody]_vars

\* --- main() in the mode "all" with the custom field configured, on every
\* issue URL made of at most MaxUrlLen pieces
UrlPieces == {GITHUB_HTML_PREFIX, "https://gitlab.com/", "mozilla/bedrock", "?next="}

InitUrl ==
    /\ \E url \in Strings(UrlPieces, MaxUrlLen) :
        environ = Environ(AllowAllCase, Flag("test-token-for-github"),
                          Flag("fake-gid-value"), url, <<>>)
    /\ directory = NoDirectory
    /\ Start

NextUrl ==
    \/ may_bridge_to_asana
    \/ get_github_issue_field_gid
    \/ create_task
    \/ main_no_comment
    \/ add_task_as_comment_on_github_issue

SpecUrl == InitUrl /\ [][NextUrl]_vars

\* --- _may_bridge_to_asana alone, on every actor, allowlist and directory
InitPolicy ==
    /\ \E c \in PolicyCases(Actors(MaxActorLen), Allowlists(MaxAllowlistLen),
                            {Str(r) : r \in Strings(RepoChars, MaxRepoLen)},
                            Strings(SUBSET Logins, MaxTeams), SUBSET Logins) :
        /\ environ = Environ(c, Flag("test-token-for-github"), NoFlag,
                             <<GITHUB_HTML_PREFIX>>, <<>>)
        /\ directory = c.directory
    /\ Start

SpecPolicy == InitPolicy /\ [][Policy]_vars

\* ================================================================ claims
Count(kind) == Cardinality({i \in 1..Len(requests) : requests[i].kind = kind})
Last(seq) == seq[Len(seq)]
Ran == pc # "start"
FlagIs(v) == environ.ONLY_REACT_TO.set /\ environ.ONLY_REACT_TO.val = v

\* C1: when the policy evaluator denies, no task-creation request and no
\* comment request is ever issued, create_task and
\* add_task_as_comment_on_github_issue are not entered, and the run ends
\* normally (it neither exits nor raises) once the refusal is logged.
C1_DeniedRunHasNoSideEffects ==
    decision = "deny" =>
        /\ Count("GET project") = 0
        /\ Count("POST task") = 0
        /\ Count("POST comment") = 0
        /\ gid = NoGid /\ created = NotCreated /\ comment = NoComment
        /\ pc \in {"decided", "done"}
        /\ pc = "decided" => ENABLED main_not_allowed
        /\ pc = "done" => Last(stdout) = "Not mirroring this Issue to Asana"

C1_Witness ==
    /\ decision = "deny"
    /\ pc = "done"
    /\ Last(stdout) = "Not mirroring this Issue to Asana"

\* C2: a run whose task creation returned the sentinel "Error creating
\* Asana task" never attempts the comment; a comment request is only ever
\* issued after a task-creation request whose result is not the sentinel.
C2_NoCommentAfterSentinel ==
    /\ (created.returned /\ created.permalink = "Error creating Asana task") =>
            /\ Count("POST comment") = 0
            /\ comment = NoComment
            /\ \A i \in 1..Len(stdout) :
                    stdout[i] # "No REPO_TOKEN found - cannot update Issue"
    /\ \A i \in 1..Len(requests) :
            requests[i].kind = "POST comment" =>
                /\ created.returned
                /\ created.permalink # "Error creating Asana task"
                /\ \E j \in 1..(i - 1) :
                        requests[j].kind = "POST task" /\ requests[j].status = 201

C2_Witness ==
    /\ pc = "done"
    /\ created.returned
    /\ created.permalink = "Error creating Asana task"
    /\ environ.REPO_TOKEN.set /\ environ.REPO_TOKEN.val # ""
    /\ Count("POST comment") = 0

\* The actor's login is in the member list of team j of the directory.
OnTeam(j) == environ.ACTOR.set /\ environ.ACTOR.val \in directory.teams[j]

IsLeadingPart(o, r) ==
    /\ Len(o) <= Len(r)
    /\ \A i \in 1..Len(o) : o[i] = r[i] /\ o[i] # "/"
    /\ Len(o) = Len(r) \/ r[Len(o) + 1] = "/"

C5_EmptyAllowlistDeniesAll ==
    (Ran /\ FlagIs("specified-users")
         /\ (~environ.ACTOR_ALLOWLIST.set \/ environ.ACTOR_ALLOWLIST.val = <<>>)) =>
        decision = "deny"

\* e is s without its leading and trailing spaces.
IsTrimmed(e, s) ==
    \E k \in 0..Len(s) :
        /\ k + Len(e) <= Len(s)
        /\ \A i \in 1..Len(e) : e[i] = s[k + i]
        /\ \A i \in 1..k : s[i] = " "
        /\ \A i \in (k + Len(e) + 1)..Len(s) : s[i] = " "
        /\ e # <<>> => e[1] # " " /\ e[Len(e)] # " "

\* name is an entry of the comma-separated list raw, spaces around it aside.
IsEntry(name, raw) ==
    \E i \in 0..Len(raw), j \in 0..Len(raw) :
        /\ i <= j
        /\ i = 0 \/ raw[i] = ","
        /\ j = Len(raw) \/ raw[j + 1] = ","
        /\ \A k \in (i + 1)..j : raw[k] # ","
        /\ IsTrimmed(name, SubSeq(raw, i + 1, j))

\* The usernames an allowlist configures: its entries that name someone.
IsListedUser(actor, allowlist) ==
    /\ actor.set
    /\ actor.val # <<>>
    /\ allowlist.set
    /\ IsEntry(actor.val, allowlist.val)

\* C6: in specified-users mode the answer is true exactly when the actor
\* is one of the usernames of the comma-separated allowlist, each entry
\* taken without its surrounding whitespace, and no request is made.
C6_AllowlistDecides ==
    (Ran /\ FlagIs("specified-users")) =>
        /\ decision = "allow" <=> IsListedUser(environ.ACTOR, environ.ACTOR_ALLOWLIST)
        /\ requests = <<>>
        /\ pc = "decided"

\* What the code does hold to: for an actor with a name, the answer is
\* membership of the entries; the empty actor is the only departure.
AllowlistDecidesNamedActors ==
    (Ran /\ FlagIs("specified-users")) =>
        /\ requests = <<>>
        /\ pc = "decided"
        /\ (environ.ACTOR.set /\ environ.ACTOR.val # <<>>) =>
            (decision = "allow" <=> IsListedUser(environ.ACTOR, environ.ACTOR_ALLOWLIST))
        /\ ~environ.ACTOR.set => decision = "deny"
        /\ (environ.ACTOR.set /\ environ.ACTOR.val = <<>>) =>
            (decision = "allow" <=>
                IsEntry(<<>>, GetOrEmpty(environ.ACTOR_ALLOWLIST)))

RecognizedFlags == {"all", "specified-users", "repo-team", "repo-org"}

\* C7: for a mode that is none of the recognized ones, an unset mode
\* included, the answer is false whatever the actor, the allowlist and the
\* repo, no request is made and the process does not exit.
C7_UnrecognizedModeFailsClosed ==
    (Ran /\ (~environ.ONLY_REACT_TO.set
             \/ environ.ONLY_REACT_TO.val \notin RecognizedFlags)) =>
        /\ decision = "deny"
        /\ requests = <<>>
        /\ pc \in {"decided", "done"}
        /\ stdout[1] = "Bridging this issue to Asana is not allowed"

C7_Witness ==
    /\ ~environ.ONLY_REACT_TO.set
    /\ IsListedUser(environ.ACTOR, environ.ACTOR_ALLOWLIST)
    /\ decision = "deny"
    /\ pc = "decided"

\* The content-changed flag, read off the body that was sent.
BodyHasDisclaimer ==
    \E i \in 1..Len(payload.html_notes) :
        \E k \in 1..Len(payload.html_notes[i]) : payload.html_notes[i][k].name = NOTE

\* C8: create_task does not abort on the creation response: on 201 it
\* returns the permalink of the response, on any other status the sentinel
\* "Error creating Asana task", and either way the content-changed flag of
\* the composed body.
C8_CreateTaskAlwaysReturns ==
    \A i \in 1..Len(requests) :
        requests[i].kind = "POST task" =>
            /\ pc # "raised"
            /\ created.returned
            /\ requests[i].status = 201 => created.permalink = requests[i].reply
            /\ requests[i].status # 201 =>
                    created.permalink = "Error creating Asana task"
            /\ created.changed = BodyHasDisclaimer

\* What the code does hold to: a 201 is returned as claimed, and any other
\* status ends the run in log()'s TypeError, create_task returning nothing.
CreateTaskReturnsOn201Only ==
    \A i \in 1..Len(requests) :
        requests[i].kind = "POST task" =>
            /\ requests[i].status = 201 =>
                    /\ pc \in {"created", "done"}
                    /\ created.returned
                    /\ created.permalink = requests[i].reply
                    /\ created.changed = BodyHasDisclaimer
            /\ requests[i].status # 201 => pc = "raised" /\ created = NotCreated

\* add_task_as_comment_on_github_issue has run: the run is over and
\* create_task had returned something other than the sentinel.
CommentStepRan ==
    /\ pc = "done"
    /\ created.returned
    /\ created.permalink # "Error creating Asana task"

\* C9: with REPO_TOKEN unset or empty, add_task_as_comment_on_github_issue
\* issues no request, logs that no token was found and returns; the run
\* ends normally, the task having been created.
C9_NoTokenNoComment ==
    (created.returned /\ created.permalink # "Error creating Asana task"
        /\ (~environ.REPO_TOKEN.set \/ environ.REPO_TOKEN.val = "")) =>
        /\ Count("POST comment") = 0
        /\ comment = NoComment
        /\ pc \in {"created", "done"}
        /\ pc = "created" => ENABLED add_task_as_comment_on_github_issue
        /\ pc = "done" => Last(stdout) = "No REPO_TOKEN found - cannot update Issue"
        /\ \E i \in 1..Len(requests) :
                requests[i].kind = "POST task" /\ requests[i].status = 201

C9_Witness ==
    /\ CommentStepRan
    /\ environ.REPO_TOKEN.set /\ environ.REPO_TOKEN.val = ""
    /\ Count("POST comment") = 0
    /\ Last(stdout) = "No REPO_TOKEN found - cannot update Issue"

\* C10: nothing is retried: at most one task-creation POST and at most one
\* comment POST per run, and a response other than 201 to either is logged
\* and the run goes on to its normal end, neither aborting nor re-issuing.
C10_NoRetryAndNoAbort ==
    /\ Count("POST task") <= 1
    /\ Count("POST comment") <= 1
    /\ \A i \in 1..Len(requests) :
            (requests[i].kind \in {"POST task", "POST comment"}
                /\ requests[i].status # 201) =>
                /\ pc \in {"created", "done"}
                /\ Len(stdout) >= 1
                /\ Last(stdout) \in {"resp.content", "Commenting failed"}

\* What the code does hold to: no POST is issued twice, and a refused
\* comment is logged and the run ends normally.
NoRetryAndCommentFailureLogged ==
    /\ Count("POST task") <= 1
    /\ Count("POST comment") <= 1
    /\ Count("GET project") <= 1
    /\ \A i \in 1..Len(requests) :
            (requests[i].kind = "POST comment" /\ requests[i].status # 201) =>
                pc = "done" /\ Last(stdout) = "Commenting failed"

\* The element a block types as HTML ("" for a Markdown block).
TypedElement(block) ==
    IF block = "script" THEN "script" ELSE IF block = "html_p" THEN "p" ELSE ""

\* The elements the rendering of a block holds.
ElementsOf(block) ==
    CASE block \in {"text", "html_p"} -> {"p"}
      [] block = "em" -> {"p", "em"}
      [] block = "h2" -> {"h2"}
      [] block = "h3" -> {"h3"}
      [] block = "rule" -> {"hr"}
      [] block = "script" -> {"script"}

IssueBody == environ.ISSUE_BODY
\* The sanitised content sent: the second line of the body.
SentContent == payload.html_notes[2]
TagsOf(line) == {line[k].name : k \in {j \in 1..Len(line) : line[j].t # "text"}}

\* C11, as stated: a body that contains an element outside the allowed tag
\* set is reported as changed and the element's tag is not in the html; a
\* body of Markdown paragraphs, emphasis, "##" headings and rules is not
\* reported as changed.
C11_ElementOutsideAllowedSetIsReported ==
    created.returned =>
        /\ \A i \in 1..Len(IssueBody) :
            (TypedElement(IssueBody[i]) \notin ASANA_ALLOWED_TAGS_FOR_TASKS \cup {""}) =>
                /\ created.changed
                /\ TypedElement(IssueBody[i]) \notin TagsOf(SentContent)
        /\ (\A i \in 1..Len(IssueBody) : IssueBody[i] \in {"text", "em", "h2", "rule"}) =>
                ~created.changed

\* C11, amended: the paragraph element aside, a body is reported as changed
\* exactly when its rendering holds an element outside the allowed tag set;
\* no element outside the allowed set, p included, is in the html sent.
C11_ElementOutsideAllowedSetOrPIsReported ==
    created.returned =>
        /\ created.changed <=>
                \E i \in 1..Len(IssueBody) :
                    ~(ElementsOf(IssueBody[i]) \subseteq
                            ASANA_ALLOWED_TAGS_FOR_TASKS \cup {"p"})
        /\ TagsOf(SentContent) \subseteq ASANA_ALLOWED_TAGS_FOR_TASKS
        /\ \A k \in 1..Len(SentContent) : SentContent[k].t # "selfclosed"

C11_Witness ==
    /\ created.returned
    /\ created.changed
    /\ \E i \in 1..Len(IssueBody) : IssueBody[i] = "script"
    /\ \E i \in 1..Len(IssueBody) : IssueBody[i] = "rule"
    /\ TagsOf(SentContent) = {"hr"}

TaskSent == Count("POST task") = 1
\* The anchor back to the issue, and the rule followed by the note.
Backlink == <<[t |-> "open", name |-> "a", href |-> environ.ISSUE_URL],
              [t |-> "text", name |-> "Github", href |-> <<>>],
              [t |-> "close", name |-> "a", href |-> <<>>]>>
RuleAndNote == <<[t |-> "open", name |-> "hr", href |-> <<>>],
                 [t |-> "text", name |-> NOTE, href |-> <<>>]>>
TextsOf(line) == Cardinality({k \in 1..Len(line) : line[k].t = "text"})

\* C12: the body sent is, inside <body> and </body> and in this order, the
\* sanitised content, the backlink and the disclaimer; the backlink is there
\* exactly when no custom field is known, the disclaimer (rule, then the
\* note) exactly when the content was reported as changed.
C12_BodyPartsInFixedOrder ==
    TaskSent =>
        LET h == payload.html_notes IN
        /\ Len(h) = 5
        /\ h[1] = <<[t |-> "open", name |-> "body", href |-> <<>>]>>
        /\ h[5] = <<[t |-> "close", name |-> "body", href |-> <<>>]>>
        /\ TagsOf(h[2]) \subseteq ASANA_ALLOWED_TAGS_FOR_TASKS \ {"a", "body"}
        /\ \A k \in 1..Len(h[2]) : h[2][k].name # NOTE
        /\ TextsOf(h[2]) =
                Cardinality({i \in 1..Len(IssueBody) : IssueBody[i] # "rule"})
        /\ h[3] = IF gid.src = "none" THEN Backlink ELSE <<>>
        /\ h[4] \in {<<>>, RuleAndNote}
        /\ created.returned => (h[4] = RuleAndNote <=> created.changed)

C12_Witness ==
    /\ TaskSent
    /\ created.returned /\ created.changed
    /\ gid.src = "none"
    /\ payload.html_notes[2] # <<>>
    /\ payload.html_notes[3] = Backlink
    /\ payload.html_notes[4] = RuleAndNote

IssueUrl == environ.ISSUE_URL
\* The URL the comment was posted to, without the "/comments" added to it.
TransformedUrl == SubSeq(comment.url, 1, Len(comment.url) - 1)
StartsWithHtmlPrefix(url) == Len(url) > 0 /\ url[1] = "https://github.com/"
FirstHtmlPrefix(url, k) ==
    /\ url[k] = "https://github.com/"
    /\ \A j \in 1..(k - 1) : url[j] # "https://github.com/"

\* C13 as stated: a URL that starts with "https://github.com/" has that
\* prefix, and nothing else, replaced by "https://api.github.com/repos/";
\* every other URL, one holding the literal further on included, is
\* returned unchanged.
C13_OnlyLeadingPrefixIsReplaced ==
    comment.posted =>
        /\ Last(comment.url) = "/comments"
        /\ TransformedUrl =
                IF StartsWithHtmlPrefix(IssueUrl)
                THEN [IssueUrl EXCEPT ![1] = "https://api.github.com/repos/"]
                ELSE IssueUrl

\* C13, amended: the first occurrence of "https://github.com/", wherever it
\* is in the URL, is replaced by "https://api.github.com/repos/", exactly
\* once; everything else is kept, so a URL without the literal is unchanged.
C13_FirstOccurrenceIsReplacedOnce ==
    comment.posted =>
        /\ Last(comment.url) = "/comments"
        /\ Len(TransformedUrl) = Len(IssueUrl)
        /\ \A k \in 1..Len(IssueUrl) :
                TransformedUrl[k] = IF FirstHtmlPrefix(IssueUrl, k)
                                    THEN "https://api.github.com/repos/"
                                    ELSE IssueUrl[k]

C13_Witness ==
    /\ comment.posted
    /\ ~StartsWithHtmlPrefix(IssueUrl)
    /\ \E k \in 2..Len(IssueUrl) :
        /\ FirstHtmlPrefix(IssueUrl, k)
        /\ TransformedUrl[k] = "https://api.github.com/repos/"
        /\ \E j \in (k + 1)..Len(IssueUrl) : TransformedUrl[j] = "https://github.com/"

\* C14: in the mode "all" the evaluator allows, whoever the actor and
\* whatever the repository are, logs that all issues are bridged, and sends
\* no request while doing so.
C14_AllowAllAllowsEveryone ==
    (FlagIs("all") /\ Ran) =>
        /\ decision = "allow"
        /\ pc = "decided"
        /\ requests = <<>>
        /\ stdout = <<"All Issues are being bridged to Asana.">>
        /\ ~ENABLED Policy

C14_Witness ==
    /\ FlagIs("all") /\ Ran
    /\ decision = "allow"
    /\ requests = <<>>
    /\ ~environ.ACTOR.set \/ environ.ACTOR.val \notin directory.org_members
    /\ directory.org_members # {}
    /\ environ.REPO # DefaultRepo
    /\ ~environ.ACTOR_ALLOWLIST.set

\* The custom field's gid is configured; the project lookup found it.
Configured ==
    /\ environ.ASANA_GITHUB_ISSUE_CUSTOM_FIELD_GID.set
    /\ environ.ASANA_GITHUB_ISSUE_CUSTOM_FIELD_GID.val # ""
Discovered ==
    \E i \in 1..Len(requests) :
        /\ requests[i].kind = "GET project"
        /\ requests[i].status = 200
        /\ \E k \in 1..Len(requests[i].reply) :
            /\ requests[i].reply[k].name \in {"Github Issue", "github issue"}
            /\ requests[i].reply[k].has_gid
            /\ \A j \in 1..(k - 1) : requests[i].reply[j].name = "Other"
UrlInCustomField == \E f \in payload.custom_fields : f.value = IssueUrl
UrlInBody ==
    \E l \in 1..Len(payload.html_notes) :
        \E k \in 1..Len(payload.html_notes[l]) :
            /\ payload.html_notes[l][k].t = "open"
            /\ payload.html_notes[l][k].name = "a"
            /\ payload.html_notes[l][k].href = IssueUrl

\* C15: a task-creation request carries the issue URL either as the value
\* of the custom field (the gid configured, or found by the one project
\* lookup), the body then holding no anchor to it, or as the anchor in the
\* body (nothing configured, and the lookup refused or without such a
\* field), the custom fields then being empty: never both, never neither.
C15_IssueUrlInExactlyOnePlace ==
    TaskSent =>
        /\ UrlInCustomField # UrlInBody
        /\ Configured =>
            /\ Count("GET project") = 0
            /\ payload.custom_fields = {[key |-> EnvGid, value |-> IssueUrl]}
            /\ ~UrlInBody
        /\ (~Configured /\ Discovered) =>
            /\ Count("GET project") = 1
            /\ Cardinality(payload.custom_fields) = 1
            /\ \A f \in payload.custom_fields :
                    f.key.src = "project" /\ f.value = IssueUrl
            /\ ~UrlInBody
        /\ (~Configured /\ ~Discovered) =>
            /\ Count("GET project") = 1
            /\ payload.custom_fields = {}
            /\ UrlInBody

C15_Witness ==
    /\ TaskSent
    /\ ~Configured /\ Discovered
    /\ environ.ASANA_GITHUB_ISSUE_CUSTOM_FIELD_GID.set
    /\ UrlInCustomField /\ ~UrlInBody
    /\ \E i \in 1..Len(requests) :
        /\ requests[i].kind = "GET project"
        /\ requests[i].reply = <<[name |-> "github issue", has_gid |-> TRUE]>>

CommentHasWarning ==
    \E k \in 1..Len(comment.body) :
        comment.body[k] = " **However**, some of the content was not mirrored due to markup restrictions. Please review the Asana Task."

\* C16: a comment that is posted holds the warning sentence exactly when the
\* body of the task created in the same run holds the disclaimer; it starts
\* with the fixed sentence and the permalink of that task.
C16_CommentWarnsIffBodyHasDisclaimer ==
    comment.posted =>
        /\ Count("POST task") = 1 /\ Count("POST comment") = 1
        /\ CommentHasWarning <=> BodyHasDisclaimer
        /\ SubSeq(comment.body, 1, 2) =
                <<"This issue has been copied to Asana: ", created.permalink>>
        /\ Len(comment.body) = IF BodyHasDisclaimer THEN 3 ELSE 2

C16_Witness ==
    /\ comment.posted
    /\ BodyHasDisclaimer
    /\ CommentHasWarning
    /\ environ.ISSUE_BODY = <<"script">>

====
